---- MODULE Spec2Model ----
(***************************************************************************)
(* nilpod: generate-pod.py.  A podcast publisher: source audio files are   *)
(* sanitized, converted, uploaded to S3, their metadata is stored as JSON  *)
(* objects, the feed is rebuilt from the stored metadata and uploaded, and *)
(* the CloudFront cache is invalidated for the uploaded paths.             *)
(*                                                                         *)
(* File names are sequences of one-character strings.  An episode record   *)
(* is [filename, date]; title and description are carried through the      *)
(* program unread by any decision and are left out.                        *)
(***************************************************************************)
EXTENDS Integers, Sequences, FiniteSets, TLC

VARIABLES
    cfg,                 \* config.yaml: "nofile", "badyaml" or the set of sections present
    pc,                  \* position of main()
    error,               \* the error that ended the run and the step it was raised in
    run,                 \* number of the current run of main()
    clock,               \* datetime.now()
    episodes_dir,        \* files in directories.episodes
    local_artwork,       \* MD5 of the artwork file in directories.assets (NoFile if absent)
    episode_files,       \* list(episodes_dir.glob('*')) still to process
    processed_episodes,  \* main: processed_episodes
    paths_to_invalidate, \* main: paths_to_invalidate
    all_episodes,        \* main: all_episodes
    feed_file,           \* the feed document written by generate_feed (<<>> if none)
    s3_audio,            \* bucket: episodes/<name>    -> ETag
    s3_meta,             \* bucket: assets/metadata/<stem>.json -> stored object
    s3_artwork,          \* bucket: assets/<artwork>   -> ETag (NoFile if absent)
    s3_feed,             \* bucket: <feed filename>    -> document (<<>> if absent)
    uploaded,            \* history: uploads that succeeded in this run
    meta_writes,         \* history: metadata objects written in this run
    invalidations,       \* history: path lists passed to invalidate_cloudfront in this run
    list_status,         \* history: how the metadata listing of this run ended
    changed,             \* history: something local was changed since the previous run ended
    san,                 \* sanitize_filename under test: input and outputs
    rec                  \* get_all_episodes under test: inputs and output

vars == <<cfg, pc, error, run, clock, episodes_dir, local_artwork, episode_files,
          processed_episodes, paths_to_invalidate, all_episodes, feed_file,
          s3_audio, s3_meta, s3_artwork, s3_feed, uploaded, meta_writes,
          invalidations, list_status, changed, san, rec>>

mainVars == <<cfg, pc, error, run, clock, episodes_dir, local_artwork, episode_files,
          processed_episodes, paths_to_invalidate, all_episodes, feed_file,
          s3_audio, s3_meta, s3_artwork, s3_feed, uploaded, meta_writes,
          invalidations, list_status, changed>>

(***************************************************************************)
(* Bounds                                                                  *)
(***************************************************************************)
MaxLen == 4       \* longest name given to sanitize_filename
MaxStored == 2    \* most objects under assets/metadata/ given to get_all_episodes
MaxNew == 2       \* longest new_episodes list given to get_all_episodes
MaxDate == 2      \* dates are 1..MaxDate
MaxRuns == 2      \* runs of main
MaxAdds == 1      \* source files dropped into the episodes directory between runs
MaxFiles == 2     \* most files in the episodes directory at once

NoFile == "NoFile"

NoError == [kind |-> "none", at |-> "none"]

(***************************************************************************)
(* Sequences                                                               *)
(***************************************************************************)
Range(s) == {s[i] : i \in 1..Len(s)}

SeqsUpTo(S, n) == UNION {[1..k -> S] : k \in 0..n}

(***************************************************************************)
(* Characters                                                              *)
(***************************************************************************)
Chars == <<" ", "!", "-", ".", "1", "3", "A", "B", "M", "P", "_",
           "a", "b", "m", "p", "v", "w">>

Ord(c) == CHOOSE i \in 1..Len(Chars) : Chars[i] = c

isalnum(c) == c \in {"1", "3", "A", "B", "M", "P", "a", "b", "m", "p", "v", "w"}

lowerChar(c) ==
    CASE c = "A" -> "a"
      [] c = "B" -> "b"
      [] c = "M" -> "m"
      [] c = "P" -> "p"
      [] OTHER -> c

lower(s) == [i \in 1..Len(s) |-> lowerChar(s[i])]

\* str.rfind('.') + 1: the position of the last dot, 0 when there is none
rfindDot(s) ==
    IF \E i \in 1..Len(s) : s[i] = "."
    THEN CHOOSE i \in 1..Len(s) : s[i] = "." /\ \A j \in (i+1)..Len(s) : s[j] # "."
    ELSE 0

\* os.path.splitext: the extension starts at the last dot, unless only dots precede it
splitext(p) ==
    LET d == rfindDot(p) IN
    IF d > 0 /\ \E j \in 1..(d-1) : p[j] # "."
    THEN [name |-> SubSeq(p, 1, d-1), ext |-> SubSeq(p, d, Len(p))]
    ELSE [name |-> p, ext |-> <<>>]

\* pathlib: PurePath.suffix and PurePath.stem of a one-component path
suffix(n) ==
    LET d == rfindDot(n) IN
    IF 1 < d /\ d < Len(n) THEN SubSeq(n, d, Len(n)) ELSE <<>>

stem(n) ==
    LET d == rfindDot(n) IN
    IF 1 < d /\ d < Len(n) THEN SubSeq(n, 1, d-1) ELSE n

\* str.split('_'): the pieces between underscores, empty pieces included
RECURSIVE splitUnderscore(_)
splitUnderscore(s) ==
    IF \A i \in 1..Len(s) : s[i] # "_"
    THEN <<s>>
    ELSE LET k == CHOOSE i \in 1..Len(s) : s[i] = "_" /\ \A j \in 1..(i-1) : s[j] # "_"
         IN  <<SubSeq(s, 1, k-1)>> \o splitUnderscore(SubSeq(s, k+1, Len(s)))

\* '_'.join(pieces)
RECURSIVE joinUnderscore(_)
joinUnderscore(ps) ==
    IF ps = <<>> THEN <<>>
    ELSE IF Len(ps) = 1 THEN ps[1]
    ELSE ps[1] \o <<"_">> \o joinUnderscore(Tail(ps))

\* filter(None, pieces)
filterNone(ps) == SelectSeq(ps, LAMBDA p : p # <<>>)

sanitize_filename(filename) ==
    LET parts == splitext(filename)
        low == lower(parts.name)
        sanitized == [i \in 1..Len(low) |->
                        IF isalnum(low[i]) \/ low[i] \in {"-", "_"} THEN low[i] ELSE "_"]
    IN  joinUnderscore(filterNone(splitUnderscore(sanitized))) \o lower(parts.ext)

(***************************************************************************)
(* get_all_episodes                                                        *)
(***************************************************************************)
PageSize == 1     \* keys per page of list_objects_v2 (1000 in S3)

Dates == 1..MaxDate

NoFilename == <<"<missing>">>

\* What get_object + json.loads + fromisoformat make of a stored object:
\*   ok          a JSON record with 'filename' and an ISO 'date'
\*   nofilename  a JSON record with an ISO 'date' and no 'filename'
\*   unreadable  get_object raises
\*   badjson     json.loads raises
\*   nodate      metadata['date'] raises KeyError
\*   baddate     datetime.fromisoformat raises
FailingKinds == {"unreadable", "badjson", "nodate", "baddate"}

Record(f, d) == [filename |-> f, date |-> d]

StoredOk(f, d) == [kind |-> "ok", filename |-> f, date |-> d]

\* the pages paginator.paginate yields; an empty listing is one page without 'Contents'
RECURSIVE Paginate(_)
Paginate(objs) ==
    IF Len(objs) <= PageSize THEN <<objs>>
    ELSE <<SubSeq(objs, 1, PageSize)>> \o Paginate(SubSeq(objs, PageSize + 1, Len(objs)))

\* lines 272-285: the records one page appends to all_episodes; a record without
\* 'filename' is appended at line 282 before line 283 raises into the handler
LoadPage(page) ==
    LET kept == SelectSeq(page, LAMBDA o : o.kind \in {"ok", "nofilename"})
    IN  [i \in 1..Len(kept) |-> Record(kept[i].filename, kept[i].date)]

\* LoadPages with the handler of lines 284-285 around the whole loop: the first
\* failing object ends the loading, on whatever page it is
RECURSIVE LoadPages_StopAtFailure(_)
LoadPages_StopAtFailure(pages) ==
    IF pages = <<>> THEN <<>>
    ELSE LET page == Head(pages)
             bad == {i \in 1..Len(page) : page[i].kind \in FailingKinds}
         IN  IF bad = {}
             THEN LoadPage(page) \o LoadPages_StopAtFailure(Tail(pages))
             ELSE LoadPage(SubSeq(page, 1, (CHOOSE i \in bad : \A j \in bad : i <= j) - 1))

RECURSIVE LoadPages(_)
LoadPages(pages) ==
    IF pages = <<>> THEN <<>> ELSE LoadPage(Head(pages)) \o LoadPages(Tail(pages))

\* AddNew without line 294: new episodes are appended, nothing is removed
AddNew_NoRemove(all, new) == all \o new

\* lines 291-298: each new episode removes the records of its filename, then is appended
RECURSIVE AddNew(_, _)
AddNew(all, new) ==
    IF new = <<>> THEN all
    ELSE AddNew(SelectSeq(all, LAMBDA ep : ep.filename # Head(new).filename)
                    \o <<Head(new)>>,
                Tail(new))

\* list.sort(key=date, reverse=True): stable, equal dates keep their order
RECURSIVE InsertByDate(_, _)
InsertByDate(sorted, e) ==
    IF sorted = <<>> THEN <<e>>
    ELSE IF Head(sorted).date >= e.date
         THEN <<Head(sorted)>> \o InsertByDate(Tail(sorted), e)
         ELSE <<e>> \o sorted

RECURSIVE SortNewestFirst(_)
SortNewestFirst(s) ==
    IF s = <<>> THEN <<>>
    ELSE InsertByDate(SortNewestFirst(SubSeq(s, 1, Len(s) - 1)), s[Len(s)])

\* get_all_episodes(config, new_episodes) against the listing objs.
\* failAt = k > 0: fetching page k raises failKind; failAt = 0: the listing succeeds.
\* raised = "none": the function returns result.
get_all_episodes(objs, new_episodes, failAt, failKind) ==
    LET pages == Paginate(objs)
        loaded == LoadPages(pages)
    IN  IF failAt > 0
        THEN IF failKind = "ClientError"
             THEN [raised |-> "none", result |-> new_episodes]
             ELSE [raised |-> failKind, result |-> <<>>]
        ELSE IF \E i \in 1..Len(loaded) : loaded[i].filename = NoFilename
             THEN [raised |-> "KeyError", result |-> <<>>]
             ELSE [raised |-> "none",
                   result |-> SortNewestFirst(AddNew(loaded, new_episodes))]

(***************************************************************************)
(* The state of main() while a function is exercised on its own            *)
(***************************************************************************)
MainIdle ==
    /\ cfg = "nofile" /\ pc = "idle" /\ error = NoError /\ run = 0 /\ clock = 1
    /\ episodes_dir = {} /\ local_artwork = NoFile /\ episode_files = <<>>
    /\ processed_episodes = <<>> /\ paths_to_invalidate = <<>> /\ all_episodes = <<>>
    /\ feed_file = <<>> /\ s3_audio = <<>> /\ s3_meta = <<>>
    /\ s3_artwork = NoFile /\ s3_feed = <<>> /\ uploaded = <<>> /\ meta_writes = <<>>
    /\ invalidations = <<>> /\ list_status = "none" /\ changed = FALSE

(***************************************************************************)
(* sanitize_filename on its own: every name up to MaxLen characters,       *)
(* sanitized once and then once more                                       *)
(***************************************************************************)
Alphabet == {"a", "B", "1", "-", "_", ".", " ", "!"}

InitSan ==
    /\ MainIdle
    /\ rec = <<>>
    /\ \E x \in SeqsUpTo(Alphabet, MaxLen) : san = [phase |-> "in", x |-> x]

Sanitize ==
    /\ san.phase = "in"
    /\ san' = [phase |-> "once", x |-> san.x, y |-> sanitize_filename(san.x)]
    /\ UNCHANGED <<mainVars, rec>>

Resanitize ==
    /\ san.phase = "once"
    /\ san' = [phase |-> "twice", x |-> san.x, y |-> san.y,
               yy |-> sanitize_filename(san.y)]
    /\ UNCHANGED <<mainVars, rec>>

NextSan == Sanitize \/ Resanitize

SpecSan == InitSan /\ [][NextSan]_vars

(***************************************************************************)
(* get_all_episodes on its own: every listing of up to MaxStored objects,  *)
(* every new_episodes list of up to MaxNew records, every listing failure  *)
(***************************************************************************)
NameA == <<"a", ".", "m", "p", "3">>
NameB == <<"b", ".", "m", "p", "3">>
RecNames == {NameA, NameB}

StoredObjects ==
    {StoredOk(f, d) : f \in RecNames, d \in Dates}
    \cup {[kind |-> "nofilename", filename |-> NoFilename, date |-> 1]}
    \cup {[kind |-> k, filename |-> NoFilename, date |-> 0] : k \in FailingKinds}

NewRecords == {Record(f, d) : f \in RecNames, d \in Dates}

InitRec ==
    /\ MainIdle
    /\ san = <<>>
    /\ \E objs \in SeqsUpTo(StoredObjects, MaxStored), new \in SeqsUpTo(NewRecords, MaxNew) :
         \E failAt \in 0..Len(Paginate(objs)), failKind \in {"ClientError", "OtherError"} :
            /\ failAt = 0 => failKind = "ClientError"
            /\ rec = [phase |-> "in", objs |-> objs, new |-> new,
                      failAt |-> failAt, failKind |-> failKind]

Reconcile ==
    /\ rec.phase = "in"
    /\ rec' = [rec EXCEPT !.phase = "out"] @@
              [out |-> get_all_episodes(rec.objs, rec.new, rec.failAt, rec.failKind)]
    /\ UNCHANGED <<mainVars, san>>

NextRec == Reconcile

SpecRec == InitRec /\ [][NextRec]_vars

(***************************************************************************)
(* main(): one run is the steps LoadConfig, ProcessEpisode (once per       *)
(* file), GetAllEpisodes, GenerateFeed, UploadFeed, Invalidate.  A call to *)
(* S3 or CloudFront returns, raises ClientError, or raises something else. *)
(***************************************************************************)
Sections == {"directories", "episode", "system", "aws", "audio", "podcast", "feed"}

\* config.yaml: missing, unparsable, complete, or lacking one section
Configs ==
    {[file |-> f, sections |-> {}] : f \in {"nofile", "badyaml"}}
    \cup {[file |-> "ok", sections |-> Sections]}
    \cup {[file |-> "ok", sections |-> Sections \ {x}] : x \in Sections}

Outcomes == {"ok", "ClientError", "OtherError"}

Mp3 == <<".", "m", "p", "3">>

SourceFiles == {<<"A", ".", "m", "p", "3">>,
                <<"a", ".", "w", "a", "v">>,
                <<"b", ".", "M", "P", "3">>}

EpisodePath(name) == [kind |-> "episodes", name |-> name]
ArtworkPath == [kind |-> "assets", name |-> <<>>]
FeedPath == [kind |-> "feed", name |-> <<>>]

\* d[k] = v, adding k to the keys of d
Put(d, k, v) == [x \in DOMAIN d \cup {k} |-> IF x = k THEN v ELSE d[x]]

\* S3 lists keys in byte order
LexLess(s, t) ==
    \/ Len(s) < Len(t) /\ SubSeq(t, 1, Len(s)) = s
    \/ \E k \in 1..Len(s) :
          /\ k <= Len(t)
          /\ SubSeq(s, 1, k-1) = SubSeq(t, 1, k-1)
          /\ Ord(s[k]) < Ord(t[k])

RECURSIVE SortedKeys(_)
SortedKeys(S) ==
    IF S = {} THEN <<>>
    ELSE LET m == CHOOSE x \in S : \A y \in S \ {x} : LexLess(x, y)
         IN  <<m>> \o SortedKeys(S \ {m})

\* the objects under assets/metadata/ in listing order; the keys in unreadable
\* are those whose get_object fails during this listing
Listing(meta, unreadable) ==
    LET keys == SortedKeys(DOMAIN meta)
    IN  [i \in 1..Len(keys) |->
            IF keys[i] \in unreadable
            THEN [kind |-> "unreadable", filename |-> NoFilename, date |-> 0]
            ELSE meta[keys[i]]]

\* Path.glob yields the directory entries in arbitrary order
GlobOrders(S) == {p \in [1..Cardinality(S) -> S] : Range(p) = S}

\* datetime.now(tz): never before an earlier reading
Now == {d \in Dates : d = clock \/ d = clock + 1}

Init ==
    /\ san = <<>> /\ rec = <<>>
    /\ cfg \in Configs
    /\ pc = "start" /\ error = NoError /\ run = 1 /\ clock = 1
    /\ episodes_dir \in {d \in SUBSET SourceFiles : Cardinality(d) <= MaxFiles}
    /\ local_artwork \in {NoFile, "art1"}
    /\ episode_files = <<>> /\ processed_episodes = <<>>
    /\ paths_to_invalidate = <<>> /\ all_episodes = <<>>
    /\ feed_file = <<>>
    /\ s3_audio = <<>> /\ s3_meta = <<>> /\ s3_artwork = NoFile /\ s3_feed = <<>>
    /\ uploaded = <<>> /\ meta_writes = <<>> /\ invalidations = <<>>
    /\ list_status = "none" /\ changed = FALSE

\* an exception nobody catches ends the run where it is raised
Crash(e) == pc' = "crashed" /\ error' = [kind |-> e, at |-> pc]

\* lines 361-378
LoadConfig ==
    /\ pc = "start"
    /\ IF cfg.file # "ok"
       THEN /\ pc' = "exit" /\ error' = [kind |-> "ConfigError", at |-> pc]
            /\ UNCHANGED episode_files
       ELSE IF "directories" \notin cfg.sections
       THEN /\ Crash("ConfigKeyError")
            /\ UNCHANGED episode_files
       ELSE IF episodes_dir = {}
       THEN /\ pc' = "exit" /\ error' = NoError
            /\ UNCHANGED episode_files
       ELSE /\ pc' = "episodes" /\ error' = NoError
            /\ episode_files' \in GlobOrders(episodes_dir)
    /\ processed_episodes' = <<>>
    /\ paths_to_invalidate' = <<>>
    /\ UNCHANGED <<cfg, run, clock, episodes_dir, local_artwork, all_episodes, feed_file,
                   s3_audio, s3_meta, s3_artwork, s3_feed, uploaded, meta_writes,
                   invalidations, list_status, changed, san, rec>>

\* lines 380-411, one iteration of the loop
ProcessEpisode ==
    /\ pc = "episodes"
    /\ LET episode_path == Head(episode_files)
           sanitized_name == sanitize_filename(episode_path)
           is_mp3 == lower(suffix(episode_path)) = Mp3
           filename == IF is_mp3 THEN sanitized_name ELSE stem(sanitized_name) \o Mp3
           etag == [src |-> episode_path, converted |-> ~is_mp3]
       IN
       IF ~ ({"episode", "system"} \subseteq cfg.sections)
       THEN /\ Crash("ConfigKeyError")
            /\ UNCHANGED <<clock, episodes_dir, episode_files, processed_episodes,
                           paths_to_invalidate, s3_audio, s3_meta, uploaded, meta_writes>>
       ELSE \E date \in Now, convert \in BOOLEAN, up \in Outcomes, put \in Outcomes :
            LET episode_info == Record(filename, date)
                ready == is_mp3 \/ (convert /\ "audio" \in cfg.sections)
                aws == "aws" \in cfg.sections
                upOK == ready /\ aws /\ up = "ok"
                putOK == upOK /\ put = "ok"
                raised == IF ready /\ ~aws THEN "ConfigKeyError"
                          ELSE IF ready /\ up = "OtherError" THEN "OtherError"
                          ELSE IF upOK /\ put = "OtherError" THEN "OtherError"
                          ELSE "none"
            IN  /\ clock' = date
                /\ processed_episodes' = IF ready THEN Append(processed_episodes, episode_info)
                                         ELSE processed_episodes
                /\ episodes_dir' = IF ready THEN episodes_dir \ {episode_path}
                                   ELSE episodes_dir
                /\ s3_audio' = IF upOK THEN Put(s3_audio, filename, etag) ELSE s3_audio
                /\ paths_to_invalidate' = IF upOK
                      THEN Append(paths_to_invalidate, EpisodePath(filename))
                      ELSE paths_to_invalidate
                /\ uploaded' = IF upOK
                      THEN Append(uploaded,
                             [path |-> EpisodePath(filename),
                              same |-> filename \in DOMAIN s3_audio
                                        /\ s3_audio[filename] = etag])
                      ELSE uploaded
                /\ s3_meta' = IF putOK
                      THEN Put(s3_meta, stem(filename), StoredOk(filename, date))
                      ELSE s3_meta
                /\ meta_writes' = IF putOK THEN Append(meta_writes, stem(filename))
                                  ELSE meta_writes
                /\ IF raised # "none"
                   THEN Crash(raised) /\ UNCHANGED episode_files
                   ELSE /\ episode_files' = Tail(episode_files)
                        /\ pc' = IF Tail(episode_files) = <<>> THEN "reconcile" ELSE "episodes"
                        /\ UNCHANGED error
    /\ UNCHANGED <<cfg, run, local_artwork, all_episodes, feed_file, s3_artwork, s3_feed,
                   invalidations, list_status, changed, san, rec>>

\* line 414
GetAllEpisodes ==
    /\ pc = "reconcile"
    /\ IF "aws" \notin cfg.sections
       THEN /\ Crash("ConfigKeyError")
            /\ UNCHANGED <<all_episodes, list_status>>
       ELSE \E unreadable \in SUBSET DOMAIN s3_meta :
            LET objs == Listing(s3_meta, unreadable) IN
            \E failAt \in 0..Len(Paginate(objs)), failKind \in {"ClientError", "OtherError"} :
            LET out == get_all_episodes(objs, processed_episodes, failAt, failKind) IN
                /\ failAt = 0 => failKind = "ClientError"
                /\ list_status' = IF failAt = 0 THEN "ok" ELSE failKind
                /\ IF out.raised # "none"
                   THEN Crash(out.raised) /\ UNCHANGED all_episodes
                   ELSE /\ all_episodes' = out.result
                        /\ pc' = "feed"
                        /\ UNCHANGED error
    /\ UNCHANGED <<cfg, run, clock, episodes_dir, local_artwork, episode_files,
                   processed_episodes, paths_to_invalidate, feed_file, s3_audio, s3_meta,
                   s3_artwork, s3_feed, uploaded, meta_writes, invalidations, changed,
                   san, rec>>

\* feedgen's FeedGenerator.add_entry(): called without order= (line 334) it takes
\* the library default, order='prepend', which puts the new entry first
add_entry(entries, episode) == <<episode>> \o entries

\* lines 333-357: the entries of the document after the loop over episodes
RECURSIVE FeedEntries(_, _)
FeedEntries(entries, episodes) ==
    IF episodes = <<>> THEN entries
    ELSE FeedEntries(add_entry(entries, Head(episodes)), Tail(episodes))

\* lines 315-357 with handle_artwork, lines 191-212, and check_file_exists_in_s3
GenerateFeed ==
    /\ pc = "feed"
    /\ IF ~ ({"podcast", "feed"} \subseteq cfg.sections)
       THEN /\ Crash("ConfigKeyError")
            /\ UNCHANGED <<feed_file, s3_artwork, paths_to_invalidate, uploaded>>
       ELSE \E head \in Outcomes, up \in Outcomes :
            LET exists_in_s3 == head = "ok" /\ s3_artwork # NoFile
                s3_hash == IF exists_in_s3 THEN s3_artwork ELSE NoFile
                present == local_artwork # NoFile
                needed == present /\ head # "OtherError"
                            /\ (~exists_in_s3 \/ s3_hash # local_artwork)
                upOK == needed /\ up = "ok"
                raised == (present /\ head = "OtherError") \/ (needed /\ up = "OtherError")
                artwork_url == present /\ ~(needed /\ up = "ClientError")
            IN  /\ s3_artwork' = IF upOK THEN local_artwork ELSE s3_artwork
                /\ paths_to_invalidate' = IF upOK THEN Append(paths_to_invalidate, ArtworkPath)
                                          ELSE paths_to_invalidate
                /\ uploaded' = IF upOK
                      THEN Append(uploaded, [path |-> ArtworkPath,
                                             same |-> s3_artwork = local_artwork])
                      ELSE uploaded
                /\ IF raised
                   THEN Crash("OtherError") /\ UNCHANGED feed_file
                   ELSE /\ feed_file' = <<[entries |-> FeedEntries(<<>>, all_episodes),
                                           logo |-> artwork_url]>>
                        /\ pc' = "upload_feed"
                        /\ UNCHANGED error
    /\ UNCHANGED <<cfg, run, clock, episodes_dir, local_artwork, episode_files,
                   processed_episodes, all_episodes, s3_audio, s3_meta, s3_feed,
                   meta_writes, invalidations, list_status, changed, san, rec>>

\* lines 419-423
UploadFeed ==
    /\ pc = "upload_feed"
    /\ \E up \in Outcomes :
         /\ s3_feed' = IF up = "ok" THEN feed_file ELSE s3_feed
         /\ paths_to_invalidate' = IF up = "ok" THEN Append(paths_to_invalidate, FeedPath)
                                   ELSE paths_to_invalidate
         /\ uploaded' = IF up = "ok"
               THEN Append(uploaded, [path |-> FeedPath, same |-> s3_feed = feed_file])
               ELSE uploaded
         /\ IF up = "OtherError"
            THEN Crash("OtherError")
            ELSE pc' = "invalidate" /\ UNCHANGED error
    /\ UNCHANGED <<cfg, run, clock, episodes_dir, local_artwork, episode_files,
                   processed_episodes, all_episodes, feed_file, s3_audio, s3_meta,
                   s3_artwork, meta_writes, invalidations, list_status, changed, san, rec>>

\* lines 425-431 with invalidate_cloudfront, lines 214-244
Invalidate ==
    /\ pc = "invalidate"
    /\ IF paths_to_invalidate # <<>>
       THEN /\ invalidations' = Append(invalidations, paths_to_invalidate)
            /\ \E call \in Outcomes :
                 IF call = "OtherError"
                 THEN Crash("OtherError")
                 ELSE pc' = "done" /\ UNCHANGED error
       ELSE /\ pc' = "done"
            /\ UNCHANGED <<invalidations, error>>
    /\ UNCHANGED <<cfg, run, clock, episodes_dir, local_artwork, episode_files,
                   processed_episodes, paths_to_invalidate, all_episodes, feed_file,
                   s3_audio, s3_meta, s3_artwork, s3_feed, uploaded, meta_writes,
                   list_status, changed, san, rec>>

\* The operator drops up to MaxAdds files into the episodes directory, may replace
\* the artwork, and runs the script again
Relaunch ==
    /\ pc \in {"done", "exit", "crashed"}
    /\ run < MaxRuns
    /\ \E added \in SUBSET (SourceFiles \ episodes_dir), art \in {local_artwork, "art2"} :
         /\ Cardinality(added) <= MaxAdds
         /\ Cardinality(episodes_dir \cup added) <= MaxFiles
         /\ episodes_dir' = episodes_dir \cup added
         /\ local_artwork' = art
         /\ changed' = (added # {} \/ art # local_artwork)
    /\ run' = run + 1
    /\ pc' = "start" /\ error' = NoError
    /\ episode_files' = <<>> /\ processed_episodes' = <<>>
    /\ paths_to_invalidate' = <<>> /\ all_episodes' = <<>>
    /\ uploaded' = <<>> /\ meta_writes' = <<>> /\ invalidations' = <<>>
    /\ list_status' = "none"
    /\ UNCHANGED <<cfg, clock, feed_file, s3_audio, s3_meta, s3_artwork, s3_feed, san, rec>>

Next ==
    \/ LoadConfig
    \/ ProcessEpisode
    \/ GetAllEpisodes
    \/ GenerateFeed
    \/ UploadFeed
    \/ Invalidate
    \/ Relaunch

Spec == Init /\ [][Next]_vars

(***************************************************************************)
(* Properties                                                              *)
(***************************************************************************)
Terminal == pc \in {"done", "exit", "crashed"}

UploadedPaths == {uploaded[i].path : i \in 1..Len(uploaded)}

\* C1: an artifact whose local fingerprint equals the fingerprint stored at its key
\* is not uploaded in the run and its path is not passed to cache invalidation.
C1_UnchangedNotPublished ==
    \A i \in 1..Len(uploaded) :
        /\ ~uploaded[i].same
        /\ \A k \in 1..Len(invalidations) :
              uploaded[i].same => uploaded[i].path \notin Range(invalidations[k])

\* C2: a run that follows another with nothing local changed in between uploads
\* nothing and invalidates nothing.
C2_SecondRunIdle ==
    (run >= 2 /\ ~changed) => (uploaded = <<>> /\ invalidations = <<>>)

\* C6: when the listing of the metadata namespace fails, in whatever way and on
\* whatever page, get_all_episodes does not raise, returns new_episodes, and the run
\* goes on to the feed.
C6_ListingFailureTolerated ==
    list_status \in {"ClientError", "OtherError"} =>
        /\ error.at # "reconcile"
        /\ pc # "reconcile"
        /\ all_episodes = processed_episodes

\* C9: at the end of every run, cache invalidation was requested if and only if an
\* artifact was uploaded, and the paths passed are exactly the uploaded artifacts' paths.
C9_InvalidationMatchesUploads ==
    Terminal =>
        /\ (invalidations # <<>>) <=> (uploaded # <<>>)
        /\ \A k \in 1..Len(invalidations) : Range(invalidations[k]) = UploadedPaths

\* C10: a run that ends with a configuration error (file missing, file unparsable,
\* required field missing) has uploaded nothing, written no metadata and requested
\* no invalidation.
C10_ConfigErrorBeforeIO ==
    error.kind \in {"ConfigError", "ConfigKeyError"} =>
        /\ uploaded = <<>>
        /\ meta_writes = <<>>
        /\ invalidations = <<>>

RecReturned == rec.phase = "out" /\ rec.out.raised = "none"

RecResult == rec.out.result

\* the records the listing loads: none when the listing fails
RecExisting ==
    IF rec.failAt > 0 THEN <<>>
    ELSE LET ok == SelectSeq(rec.objs, LAMBDA o : o.kind = "ok")
         IN  [i \in 1..Len(ok) |-> Record(ok[i].filename, ok[i].date)]

FilenamesOf(s) == {s[i].filename : i \in 1..Len(s)}

Count(s, e) == Cardinality({i \in 1..Len(s) : s[i] = e})

CountName(s, f) == Cardinality({i \in 1..Len(s) : s[i].filename = f})

\* C3: the returned list has exactly one record per distinct filename of existing
\* and new_episodes: no filename twice, none lost, length = number of filenames.
C3_OnePerFilename ==
    RecReturned =>
        LET names == FilenamesOf(RecExisting) \cup FilenamesOf(rec.new) IN
        /\ \A f \in names : CountName(RecResult, f) = 1
        /\ FilenamesOf(RecResult) = names
        /\ Len(RecResult) = Cardinality(names)

\* C4: every filename of new_episodes is in the result with a record of
\* new_episodes, and no stored record of that filename remains.
C4_NewReplacesExisting ==
    RecReturned =>
        \A f \in FilenamesOf(rec.new) :
            /\ CountName(RecResult, f) >= 1
            /\ \A i \in 1..Len(RecResult) :
                  RecResult[i].filename = f =>
                      /\ RecResult[i] \in Range(rec.new)
                      /\ Count(RecResult, RecResult[i]) <= Count(rec.new, RecResult[i])

\* C4 witness: a stored record and a new record share a filename and differ in date,
\* and the function has returned after a successful listing.
C4_Witness ==
    /\ RecReturned
    /\ rec.failAt = 0
    /\ \E i \in 1..Len(RecExisting), j \in 1..Len(rec.new) :
          /\ RecExisting[i].filename = rec.new[j].filename
          /\ RecExisting[i].date # rec.new[j].date

\* C5: on every return path the result is sorted by date, newest first.
C5_SortedNewestFirst ==
    RecReturned =>
        \A i, j \in 1..Len(RecResult) : i < j => RecResult[i].date >= RecResult[j].date

RecOnlyNamedFailures ==
    \A i \in 1..Len(rec.objs) : rec.objs[i].kind \in {"ok"} \cup FailingKinds

C8_SanitizeIdempotent ==
    san.phase = "twice" => san.yy = san.y

\* C11: the feed document lists the entries newest first, as the episode list
\* generate_feed received is meant to be: an entry's date is >= that of every later one.
C11_FeedNewestFirst ==
    \A k \in 1..Len(feed_file) :
        LET entries == feed_file[k].entries IN
        \A i, j \in 1..Len(entries) : i < j => entries[i].date >= entries[j].date

\* C12: every episode listed in the feed a run generated, and every record in the
\* metadata repository, has its audio object in the bucket under episodes/<filename>.
C12_ListedEpisodesHaveAudio ==
    /\ \A k \in 1..Len(feed_file) :
          \A i \in 1..Len(feed_file[k].entries) :
              feed_file[k].entries[i].filename \in DOMAIN s3_audio
    /\ \A key \in DOMAIN s3_meta : s3_meta[key].filename \in DOMAIN s3_audio

====
